---- MODULE Spec2Model ----
(***************************************************************************)
(* The MCP command-line client (src/index.ts and its earlier draft,        *)
(* src/unnamed/part_000) as a state machine: main, connectToServer,        *)
(* chatLoop, processQuery and cleanup, with the three external parties     *)
(* (the Tool Host reached through the MCP SDK, the reasoning service       *)
(* reached through the OpenAI SDK, and the terminal) as nondeterministic   *)
(* inputs.  One action is one synchronous run of the code between two      *)
(* awaits.                                                                 *)
(*                                                                         *)
(* Text is ASCII only; the two non-ASCII literals of the source that the   *)
(* model needs are named FALLBACK_TEXT and TracePrefix and stand for the   *)
(* literal of the line they cite.                                          *)
(***************************************************************************)
EXTENDS Integers, Sequences, FiniteSets, TLC

VARIABLES
    variant,       \* which client file runs: "index" (src/index.ts) or "part000"
    argv,          \* process.argv
    pc,            \* where the single thread of control is suspended
    constructed,   \* new MCPClient() has run
    transport,     \* this.transport: <<>> is null, <<t>> a StdioClientTransport
    connState,     \* the un-awaited promise of this.mcp.connect
    unhandled,     \* number of promise rejections nobody handles
    rejectionPending, \* the runtime has yet to act on an unhandled rejection
    env,           \* the names of the environment variables that are set
    tools,         \* this.tools
    toolsResult,   \* toolsResult.tools of line 60: what the Tool Host declared
    connectCalls,  \* number of connectToServer calls
    discoveries,   \* number of listTools requests issued
    rl,            \* the readline interface: "none", "open", "closed"
    nLines,        \* number of lines read from the terminal in this session
    message,       \* chatLoop: message, <<>> before a line is read
    nQueries,      \* number of processQuery calls made in this session
    previous,      \* what is left of the last finished query's conversation (its
                   \* opening message) until the next line is read
    choice,        \* processQuery: choice.message, <<>> before the first response
    messages,      \* processQuery: messages
    toolCalls,     \* processQuery: choice.message.tool_calls
    idx,           \* processQuery: position of the for-of loop in toolCalls
    results,       \* src/index.ts processQuery: results
    finalText,     \* part_000 processQuery: finalText
    toolResults,   \* part_000 processQuery: toolResults; kept for index.ts as well
    llmCalls,      \* the reasoning-service requests of the current query
    toolLog,       \* the callTool requests of the current query
    outcome,       \* how the current processQuery call settled: <<>> while it runs
    logged,        \* what has been written to the console
    mainError,     \* the error main's try block ended with, NoError if none
    cleanupCalls,  \* number of cleanup() calls
    exitCode       \* process exit code, -1 while the process runs

vars == <<variant, argv, pc, constructed, transport, connState, unhandled, tools, toolsResult,
          env, rejectionPending,
          connectCalls, discoveries, rl, nLines, message, nQueries, previous, choice,
          messages,
          toolCalls, idx, results, finalText, toolResults, llmCalls, toolLog, outcome,
          logged, mainError, cleanupCalls, exitCode>>

\* ------------------------------------------------------------------ bounds
\* The longest tool_calls list a reasoning-service response carries.
MaxCalls == 2
\* The number of queries typed in one session.
MaxQueries == 2

\* ------------------------------------------------------------------ values
NULL == "null"
NoError == "none"
FALLBACK_TEXT == "<index.ts:111 fallback>"
TracePrefix == "[tool "

Variants == {"index", "part000"}

\* File names and input lines are sequences of characters, so that endsWith
\* and toLowerCase are computed and not looked up.
Upper == <<"A","B","C","D","E","F","G","H","I","J","K","L","M",
           "N","O","P","Q","R","S","T","U","V","W","X","Y","Z">>
Lower == <<"a","b","c","d","e","f","g","h","i","j","k","l","m",
           "n","o","p","q","r","s","t","u","v","w","x","y","z">>

LowerChar(c) ==
    IF \E i \in 1..26 : Upper[i] = c
    THEN Lower[CHOOSE i \in 1..26 : Upper[i] = c]
    ELSE c

toLowerCase(s) == [i \in 1..Len(s) |-> LowerChar(s[i])]

endsWith(s, suffix) ==
    /\ Len(suffix) <= Len(s)
    /\ SubSeq(s, Len(s) - Len(suffix) + 1, Len(s)) = suffix

DotJs == <<".", "j", "s">>
DotPy == <<".", "p", "y">>
Quit == <<"q", "u", "i", "t">>

ServerPaths ==
    { <<"s", ".", "j", "s">>,
      <<"s", ".", "p", "y">>,
      <<"s", ".", "t", "s">>,
      <<"s", ".", "J", "S">>,
      <<"j", "s">>,
      <<"s", ".", "j", "s", "x">> }

InputLines ==
    { <<"q", "u", "i", "t">>,
      <<"Q", "U", "I", "T">>,
      <<"Q", "u", "i", "T">>,
      <<"q", "u", "i", "t", " ">>,
      <<"h", "i">> }

\* The environment variables the module requires, lines 10-12.
EnvNames == {"OPENAI_API_KEY", "OPENAI_BASE_URL"}

Platforms == {"linux", "win32"}

\* ------------------------------------------------------------------ Tool Host
\* The declarations a Tool Host answers listTools with.  HostCatalog is the
\* catalog of src/server.js; SparseCatalog declares a tool with the optional
\* fields left out.  A declaration may carry fields the client does not keep.
HostCatalog ==
    << [name |-> "getWeather",
        description |-> "get weather of a city",
        inputSchema |-> [type |-> "object",
                         properties |-> "{city:string}",
                         required |-> <<"city">>],
        annotations |-> "none"],
       [name |-> "getTodayMatchResult",
        description |-> "<server.js:22 description>",
        inputSchema |-> [type |-> "object",
                         properties |-> "{date:string,team1:string,team2:string}",
                         required |-> <<"date", "team1", "team2">>],
        annotations |-> "none"] >>

SparseCatalog ==
    << [name |-> "ping", inputSchema |-> [type |-> "object"]] >>

Catalogs == {HostCatalog, SparseCatalog}

\* What callTool resolves with: a success with a two-part content, or a
\* failure payload, which has empty content.
TextItem(t) == [type |-> "text", text |-> t]

ToolResults ==
    { [content |-> <<TextItem("A"), TextItem("B")>>, isError |-> FALSE],
      [content |-> <<>>, isError |-> TRUE] }

\* ------------------------------------------------------------------ reasoning service
\* The invocation requests a response may carry.  The third one has
\* arguments that are not JSON.
ArgsParis == "{\"city\":\"Paris\"}"
ArgsMatch == "{\"date\":\"d\",\"team1\":\"x\",\"team2\":\"y\"}"
ArgsBad == "{city"

ToolCallPool ==
    { [id |-> "call_1", type |-> "function",
       function |-> [name |-> "getWeather", arguments |-> ArgsParis]],
      [id |-> "call_2", type |-> "function",
       function |-> [name |-> "getTodayMatchResult", arguments |-> ArgsMatch]],
      [id |-> "call_3", type |-> "function",
       function |-> [name |-> "getWeather", arguments |-> ArgsBad]] }

RECURSIVE SeqsUpTo(_, _)
SeqsUpTo(S, n) ==
    IF n = 0 THEN {<<>>}
    ELSE LET shorter == SeqsUpTo(S, n - 1)
         IN shorter \cup {Append(s, x) : s \in {t \in shorter : Len(t) = n - 1}, x \in S}

\* choices[0].message of the first response: text only (tool_calls absent),
\* or a tool_calls list of 0..MaxCalls requests.
FirstResponses ==
    {[content |-> c] : c \in {"T", "", NULL}}
    \cup {[content |-> NULL, tool_calls |-> s] : s \in SeqsUpTo(ToolCallPool, MaxCalls)}

\* choices[0].message of a later response.
LaterResponses == {[content |-> c] : c \in {"C", NULL}}

\* JSON.parse of an arguments string: <<value>> or <<>> for a SyntaxError.
JSONparse(s) ==
    CASE s = ArgsParis -> <<[city |-> "Paris"]>>
      [] s = ArgsMatch -> <<[date |-> "d", team1 |-> "x", team2 |-> "y"]>>
      [] OTHER -> <<>>

RECURSIVE join(_, _)
join(seq, sep) ==
    IF Len(seq) = 0 THEN ""
    ELSE IF Len(seq) = 1 THEN seq[1]
    ELSE seq[1] \o sep \o join(Tail(seq), sep)

\* JSON.stringify of a content array of text items.
StringifyItem(item) ==
    "{\"type\":\"" \o item.type \o "\",\"text\":\"" \o item.text \o "\"}"

JSONstringify(content) ==
    "[" \o join([i \in 1..Len(content) |-> StringifyItem(content[i])], ",") \o "]"

\* JSON.stringify of the parsed arguments (key order is insertion order, so
\* the text is the arguments text for the well-formed inputs above).
StringifyArgs(args) ==
    IF args = [city |-> "Paris"] THEN ArgsParis ELSE ArgsMatch

\* a || b for a string-or-null a.
OrElse(a, b) == IF a = NULL \/ a = "" THEN b ELSE a

\* ------------------------------------------------------------------ the client's pure code
\* Mutant of IsScript: the dot of the suffix is not required.
IsScriptNoDot(path) == endsWith(path, <<"j", "s">>) \/ endsWith(path, <<"p", "y">>)

\* connectToServer, lines 43-47: the script must be a .js or a .py file.
IsScript(path) == endsWith(path, DotJs) \/ endsWith(path, DotPy)

\* connectToServer, lines 48-52: the interpreter that launches the script.
Command(path, platform) ==
    IF endsWith(path, DotPy)
    THEN (IF platform = "win32" THEN "python" ELSE "python3")
    ELSE "execPath"

\* connectToServer, lines 62-68: what is kept of one declaration.
\* A variant of lines 62-68 that keeps only the name and the schema.
CatalogEntryNoDescription(tool) == [name |-> tool.name, inputSchema |-> tool.inputSchema]

CatalogEntry(tool) ==
    IF "description" \in DOMAIN tool
    THEN [name |-> tool.name, description |-> tool.description,
          inputSchema |-> tool.inputSchema]
    ELSE [name |-> tool.name, inputSchema |-> tool.inputSchema]

Catalog(decls) == [i \in 1..Len(decls) |-> CatalogEntry(decls[i])]

\* A variant of lines 89-100 that passes the cached schema on as it is,
\* without the defaults for properties and required.
OpenAIToolRawSchema(tool) ==
    [type |-> "function",
     function |->
        [name |-> tool.name,
         description |-> IF "description" \in DOMAIN tool
                         THEN OrElse(tool.description, "") ELSE "",
         parameters |-> tool.inputSchema]]

\* processQuery, lines 89-100: one catalog entry as a function declaration.
OpenAITool(tool) ==
    [type |-> "function",
     function |->
        [name |-> tool.name,
         description |-> IF "description" \in DOMAIN tool
                         THEN OrElse(tool.description, "") ELSE "",
         parameters |->
            [type |-> "object",
             properties |-> IF "properties" \in DOMAIN tool.inputSchema
                            THEN tool.inputSchema.properties ELSE "{}",
             required |-> IF "required" \in DOMAIN tool.inputSchema
                          THEN tool.inputSchema.required ELSE <<>>]]]

openAITools(ts) == [i \in 1..Len(ts) |-> OpenAITool(ts[i])]

\* processQuery, lines 81-86.
UserMessage(query) == [role |-> "user", content |-> query]

\* A variant of lines 81-86 in which the conversation outlives the call and
\* the new user message is pushed onto what the earlier query left.
NewConversationKept(prev, query) == prev \o <<UserMessage(query)>>

\* processQuery, lines 81-86: messages is a fresh local of every call.  prev
\* is what is left of the conversation of the query before; none of it is used.
NewConversation(prev, query) == <<UserMessage(query)>>

\* The first request, lines 103-107.
FirstRequest(msgs, ts) ==
    [model |-> "qwen-plus", messages |-> msgs, tools |-> openAITools(ts)]

\* The request after the tool calls: index.ts lines 149-152, part_000 lines 141-144.
LaterRequest(v, msgs) ==
    [model |-> IF v = "index" THEN "qwen-plus" ELSE "gpt-4-turbo-preview",
     messages |-> msgs]

\* Line 110 (part_000 line 112): !choice.message.tool_calls.  An empty list
\* is an object and so is truthy.
HasNoToolCalls(msg) == "tool_calls" \notin DOMAIN msg

\* Line 111 (part_000 line 113).
TextAnswer(v, msg) ==
    OrElse(msg.content, IF v = "index" THEN FALLBACK_TEXT ELSE "")

\* Mutant of LoopDone: the loop ends one request early.
LoopDoneEarly(i, tcs) == i >= Len(tcs)

\* for (const toolCall of ...): the loop is over when the list is exhausted.
LoopDone(i, tcs) == i > Len(tcs)

\* index.ts lines 136-140, part_000 lines 129-133.
AssistantMessage(v, tc) ==
    [role |-> "assistant",
     content |-> IF v = "index" THEN NULL ELSE "",
     tool_calls |-> <<tc>>]

\* Mutant of ToolMessage: the result is tied to the tool's name, not to the
\* request's id.
ToolMessageNamedId(v, tc, result) ==
    [role |-> "tool",
     content |-> IF v = "index" THEN JSONstringify(result.content) ELSE result.content,
     tool_call_id |-> tc.function.name]

\* Mutant of ToolMessage: the content of a failure payload is not recorded.
ToolMessageDropsFailure(v, tc, result) ==
    [role |-> "tool",
     content |-> IF result.isError THEN NULL
                 ELSE IF v = "index" THEN JSONstringify(result.content)
                 ELSE result.content,
     tool_call_id |-> tc.id]

\* index.ts lines 142-146, part_000 lines 135-139.
ToolMessage(v, tc, result) ==
    [role |-> "tool",
     content |-> IF v = "index" THEN JSONstringify(result.content) ELSE result.content,
     tool_call_id |-> tc.id]

\* Mutant of Push: the result message is not pushed.
PushRequestOnly(v, msgs, tc, result) == Append(msgs, AssistantMessage(v, tc))

\* index.ts lines 136-146, part_000 lines 129-139: the two messages pushed
\* for one tool call, the request and then its result.
Push(v, msgs, tc, result) ==
    msgs \o <<AssistantMessage(v, tc), ToolMessage(v, tc, result)>>

\* index.ts lines 127-134: the text pushed to results for one tool result.
ResultText(result) ==
    join([i \in 1..Len(result.content) |-> result.content[i].text], "")

\* part_000 lines 125-127.
Trace(toolName, toolArgs) ==
    TracePrefix \o toolName \o ", args " \o StringifyArgs(toolArgs) \o "]"

\* Mutant of IsQuit: the line is compared as typed.
IsQuitExact(line) == line = Quit

\* chatLoop, line 172.
IsQuit(line) == toLowerCase(line) = Quit

Returned(value) == <<[type |-> "return", value |-> value]>>
Thrown(error) == <<[type |-> "throw", error |-> error]>>

\* ------------------------------------------------------------------ Init
Init ==
    /\ variant \in Variants
    /\ argv \in {<<"node", "index.ts">>}
                 \cup {<<"node", "index.ts", p>> : p \in ServerPaths}
    /\ env \in SUBSET EnvNames
    /\ pc = "load"
    /\ constructed = FALSE
    /\ rejectionPending = FALSE
    /\ transport = <<>>
    /\ connState = "none"
    /\ unhandled = 0
    /\ tools = <<>>
    /\ toolsResult = <<>>
    /\ connectCalls = 0
    /\ discoveries = 0
    /\ rl = "none"
    /\ nLines = 0
    /\ message = <<>>
    /\ nQueries = 0
    /\ previous = <<>>
    /\ choice = <<>>
    /\ messages = <<>>
    /\ toolCalls = <<>>
    /\ idx = 0
    /\ results = <<>>
    /\ finalText = <<>>
    /\ toolResults = <<>>
    /\ llmCalls = <<>>
    /\ toolLog = <<>>
    /\ outcome = <<>>
    /\ logged = {}
    /\ mainError = NoError
    /\ cleanupCalls = 0
    /\ exitCode = -1

QueryVars == <<choice, messages, toolCalls, idx, results, finalText, toolResults,
               llmCalls, toolLog, outcome>>
LoopVars == <<rl, nLines, message, nQueries, previous>>
SessionVars == <<variant, argv, constructed, transport, connState, unhandled, tools, toolsResult,
          env, rejectionPending,
                 connectCalls, discoveries, cleanupCalls, exitCode>>

\* ------------------------------------------------------------------ main and connectToServer
\* The places where the thread of control waits for an answer from outside;
\* everywhere else it is in the middle of a synchronous run.
Awaiting == {"discovering", "reading", "llm1", "callTool", "followUp", "llm2", "closing"}

\* The module's top-level code, lines 8-14 and 211: without both environment
\* variables it throws before main is called and the process ends with
\* code 1; otherwise main() is called.
LoadModule ==
    /\ pc = "load"
    /\ IF EnvNames \subseteq env
       THEN pc' = "main" /\ UNCHANGED exitCode
       ELSE pc' = "exited" /\ exitCode' = 1
    /\ UNCHANGED <<variant, argv, constructed, transport, connState, unhandled, tools,
                   toolsResult, env, rejectionPending, connectCalls, discoveries, logged,
                   mainError, cleanupCalls>>
    /\ UNCHANGED LoopVars
    /\ UNCHANGED QueryVars

\* connectToServer up to its await (lines 41-60).  A script of the wrong kind
\* throws before the transport exists; the catch logs and rethrows, which
\* takes main to its finally block.  Otherwise the transport is created,
\* connect is started and NOT awaited, and listTools is issued.
connectToServer(serverScriptPath) ==
    /\ connectCalls' = connectCalls + 1
    /\ IF ~IsScript(serverScriptPath)
       THEN /\ logged' = logged \cup {"connectError"}
            /\ mainError' = "ScriptKindError"
            /\ pc' = "finally"
            /\ UNCHANGED <<transport, connState, discoveries>>
       ELSE \E platform \in Platforms :
            /\ transport' = <<[command |-> Command(serverScriptPath, platform),
                               args |-> <<serverScriptPath>>]>>
            /\ connState' = "connecting"
            /\ discoveries' = discoveries + 1
            /\ pc' = "discovering"
            /\ UNCHANGED <<logged, mainError>>

\* A variant of lines 197-200 in which the return leaves through main's
\* finally block, as it would if the check stood inside the try.
PrintUsageInsideTry ==
    /\ logged' = logged \cup {"usage"}
    /\ pc' = "finally"
    /\ UNCHANGED exitCode

\* main, lines 198-199: usage is printed and main returns; with nothing
\* pending the process ends with code 0.
PrintUsage ==
    /\ logged' = logged \cup {"usage"}
    /\ pc' = "exited"
    /\ exitCode' = 0

\* main, lines 196-204, up to the first await.
Main ==
    /\ pc = "main"
    /\ IF Len(argv) < 3
       THEN /\ PrintUsage
            /\ UNCHANGED <<constructed, transport, connState, connectCalls, discoveries,
                           mainError>>
       ELSE /\ constructed' = TRUE
            /\ connectToServer(argv[3])
            /\ UNCHANGED exitCode
    /\ UNCHANGED <<variant, argv, unhandled, tools, toolsResult, env,
                   rejectionPending, cleanupCalls>>
    /\ UNCHANGED LoopVars
    /\ UNCHANGED QueryVars

\* The promise of line 58 resolves.  Nothing awaits it, so this can happen
\* at any of the places where the code waits, up to the end of the process.
ConnectCompletes ==
    /\ pc \in Awaiting
    /\ ~rejectionPending
    /\ connState = "connecting"
    /\ connState' = "connected"
    /\ UNCHANGED <<variant, argv, pc, constructed, transport, unhandled, tools, toolsResult,
                   env, rejectionPending, connectCalls, discoveries, logged, mainError,
                   cleanupCalls, exitCode>>
    /\ UNCHANGED LoopVars
    /\ UNCHANGED QueryVars

\* The promise of line 58 rejects, at any of the places where the code
\* waits.  Nothing awaits or catches it: the rejection is unhandled, and the
\* runtime acts on it once the continuations queued by the same event have
\* run.
ConnectFails ==
    /\ pc \in Awaiting
    /\ ~rejectionPending
    /\ connState = "connecting"
    /\ connState' = "failed"
    /\ unhandled' = unhandled + 1
    /\ rejectionPending' = TRUE
    /\ UNCHANGED <<variant, argv, pc, constructed, transport, tools, toolsResult, env,
                   connectCalls, discoveries, logged, mainError, cleanupCalls, exitCode>>
    /\ UNCHANGED LoopVars
    /\ UNCHANGED QueryVars

\* The runtime acts on the unhandled rejection when the code has run to its
\* next wait: it ends the process with code 1 (node's default), or reports
\* the rejection and lets the process go on (--unhandled-rejections=warn).
UnhandledRejection ==
    /\ pc \in Awaiting
    /\ rejectionPending
    /\ rejectionPending' = FALSE
    /\ \/ pc' = "exited" /\ exitCode' = 1
       \/ UNCHANGED <<pc, exitCode>>
    /\ UNCHANGED <<variant, argv, constructed, transport, connState, unhandled, tools,
                   toolsResult, env, connectCalls, discoveries, logged, mainError,
                   cleanupCalls>>
    /\ UNCHANGED LoopVars
    /\ UNCHANGED QueryVars

\* listTools resolves (lines 60-72), whatever has become of the connect of
\* line 58: the catalog is cached, connectToServer returns, main calls
\* chatLoop, which opens the terminal and asks for the first line (161-171).
ListToolsReturns ==
    /\ pc = "discovering"
    /\ ~rejectionPending
    /\ \E decls \in Catalogs :
          /\ toolsResult' = decls
          /\ tools' = Catalog(decls)
    /\ logged' = logged \cup {"connected", "started"}
    /\ rl' = "open"
    /\ pc' = "reading"
    /\ UNCHANGED <<variant, argv, constructed, transport, connState, unhandled, env,
                   rejectionPending, connectCalls, discoveries, nLines, message, nQueries,
                   previous, mainError, cleanupCalls, exitCode>>
    /\ UNCHANGED QueryVars

\* listTools rejects: the catch of lines 73-76 logs and rethrows.  This may
\* be the same event that rejected the connect of line 58, as when the
\* channel closes under both requests.
ListToolsThrows ==
    /\ pc = "discovering"
    /\ logged' = logged \cup {"connectError"}
    /\ mainError' = "DiscoveryError"
    /\ pc' = "finally"
    /\ UNCHANGED <<variant, argv, constructed, transport, connState, unhandled, tools, toolsResult, env,
                   rejectionPending,
                   connectCalls, discoveries, cleanupCalls, exitCode>>
    /\ UNCHANGED LoopVars
    /\ UNCHANGED QueryVars

\* ------------------------------------------------------------------ processQuery
\* A variant in which an error inside processQuery is swallowed and what has
\* been collected so far is returned.
ThrowReturnsPartial(error) ==
    /\ outcome' = Returned(join(results, "\n\n"))
    /\ pc' = "settled"

\* processQuery throws: its promise rejects with the error.
Throw(error) ==
    /\ outcome' = Thrown(error)
    /\ pc' = "settled"

\* A variant of the loop of line 115 that does not move on to the next request.
NextRequestSame(i) == i

\* The for-of loop of line 115 moves on from request i to the one after it.
NextRequest(i) == i + 1

\* The for-of loop arrives at request i (index.ts lines 115-125, part_000
\* lines 116-123) with the conversation msgs and the trace ft.  Past the last
\* request index.ts issues the final request (149-152) and part_000 returns
\* (149).  Otherwise the arguments are parsed, which may throw, and callTool
\* is issued.
Iterate(i, tcs, msgs, ft) ==
    /\ idx' = i
    /\ IF LoopDone(i, tcs)
       THEN IF variant = "index"
            THEN /\ llmCalls' = Append(llmCalls, LaterRequest(variant, msgs))
                 /\ pc' = "llm2"
                 /\ UNCHANGED <<toolLog, outcome>>
            ELSE /\ outcome' = Returned(join(ft, "\n"))
                 /\ pc' = "settled"
                 /\ UNCHANGED <<toolLog, llmCalls>>
       ELSE LET toolArgs == JSONparse(tcs[i].function.arguments)
            IN IF toolArgs = <<>>
               THEN /\ Throw("SyntaxError")
                    /\ UNCHANGED <<toolLog, llmCalls>>
               ELSE /\ toolLog' = Append(toolLog,
                                         [request |-> i,
                                          name |-> tcs[i].function.name,
                                          arguments |-> toolArgs[1]])
                    /\ pc' = "callTool"
                    /\ UNCHANGED <<llmCalls, outcome>>

\* rl.question resolves with a line (lines 171-175).  "quit" in any letter
\* case leaves the loop: the finally block closes the terminal and chatLoop
\* returns.  Any other line starts processQuery, which runs to its first
\* request (lines 81-107).
ReadLine ==
    /\ pc = "reading"
    /\ rl = "open"
    /\ ~rejectionPending
    /\ \E line \in InputLines :
         /\ message' = <<line>>
         /\ nLines' = nLines + 1
         /\ IF IsQuit(line)
            THEN /\ rl' = "closed"
                 /\ pc' = "finally"
                 /\ UNCHANGED <<nQueries, messages, llmCalls>>
            ELSE /\ nQueries < MaxQueries
                 /\ nQueries' = nQueries + 1
                 /\ messages' = NewConversation(previous, line)
                 /\ llmCalls' = <<FirstRequest(NewConversation(previous, line), tools)>>
                 /\ pc' = "llm1"
                 /\ UNCHANGED rl
    /\ previous' = <<>>
    /\ UNCHANGED <<choice, toolCalls, idx, results, finalText, toolResults, toolLog,
                   outcome, logged, mainError>>
    /\ UNCHANGED SessionVars

\* Standard input ends while chatLoop waits at the prompt or for a query:
\* readline closes the interface by itself.  A question that is pending at
\* that moment (line 171) never settles; the next question on the closed
\* interface rejects (see ChatLoopResume).
StdinEnds ==
    /\ pc \in {"reading", "llm1", "callTool", "followUp", "llm2"}
    /\ rl = "open"
    /\ ~rejectionPending
    /\ rl' = "closed"
    /\ UNCHANGED <<pc, nLines, message, nQueries, previous, logged, mainError>>
    /\ UNCHANGED QueryVars
    /\ UNCHANGED SessionVars

\* The question of line 171 was pending when standard input ended and will
\* never settle; main stays suspended in its try block.  When nothing else
\* keeps the runtime busy the process ends by itself with code 0, without
\* the finally block of main; otherwise it stays as it is.
EventLoopEmpty ==
    /\ pc = "reading"
    /\ rl = "closed"
    /\ ~rejectionPending
    /\ pc' = "exited"
    /\ exitCode' = 0
    /\ UNCHANGED <<variant, argv, constructed, transport, connState, unhandled, tools,
                   toolsResult, env, rejectionPending, connectCalls, discoveries, logged,
                   mainError, cleanupCalls>>
    /\ UNCHANGED LoopVars
    /\ UNCHANGED QueryVars

\* The first request resolves (index.ts lines 109-125, part_000 111-123).
Llm1Returns ==
    /\ pc = "llm1"
    /\ ~rejectionPending
    /\ \E msg \in FirstResponses :
         /\ choice' = <<msg>>
         /\ IF HasNoToolCalls(msg)
            THEN /\ outcome' = Returned(TextAnswer(variant, msg))
                 /\ pc' = "settled"
                 /\ UNCHANGED <<toolCalls, idx, toolLog, llmCalls>>
            ELSE /\ toolCalls' = msg.tool_calls
                 /\ Iterate(1, msg.tool_calls, messages, finalText)
    /\ UNCHANGED <<messages, results, finalText, toolResults, logged, mainError>>
    /\ UNCHANGED LoopVars
    /\ UNCHANGED SessionVars

\* A request to the reasoning service rejects, wherever it was issued.
LlmThrows ==
    /\ pc \in {"llm1", "llm2", "followUp"}
    /\ ~rejectionPending
    /\ Throw("LLMError")
    /\ UNCHANGED <<choice, messages, toolCalls, idx, results, finalText, toolResults,
                   llmCalls, toolLog, logged, mainError>>
    /\ UNCHANGED LoopVars
    /\ UNCHANGED SessionVars

\* callTool resolves with a result, be it a success or a failure payload.
\* index.ts (127-152): the text goes to results, the two messages are pushed
\* and the loop goes on.  part_000 (124-144): the trace goes to finalText,
\* the two messages are pushed and a follow-up request is issued.
CallToolReturns ==
    /\ pc = "callTool"
    /\ ~rejectionPending
    /\ \E result \in ToolResults :
         LET toolCall == toolCalls[idx]
             pushed == Push(variant, messages, toolCall, result)
         IN /\ messages' = pushed
            /\ toolResults' = Append(toolResults, result)
            /\ IF variant = "index"
               THEN /\ results' = Append(results, ResultText(result))
                    /\ Iterate(NextRequest(idx), toolCalls, pushed, finalText)
                    /\ UNCHANGED finalText
               ELSE /\ finalText' = Append(finalText,
                                           Trace(toolLog[Len(toolLog)].name,
                                                 toolLog[Len(toolLog)].arguments))
                    /\ llmCalls' = Append(llmCalls, LaterRequest(variant, pushed))
                    /\ pc' = "followUp"
                    /\ UNCHANGED <<results, idx, toolLog, outcome>>
    /\ UNCHANGED <<choice, toolCalls, logged, mainError>>
    /\ UNCHANGED LoopVars
    /\ UNCHANGED SessionVars

\* callTool rejects (a transport error, or a protocol error of the host).
CallToolThrows ==
    /\ pc = "callTool"
    /\ Throw("ToolError")
    /\ UNCHANGED <<choice, messages, toolCalls, idx, results, finalText, toolResults,
                   llmCalls, toolLog, logged, mainError>>
    /\ UNCHANGED LoopVars
    /\ UNCHANGED SessionVars

\* part_000 lines 146-149: the follow-up request resolves and the loop goes on.
FollowUpReturns ==
    /\ pc = "followUp"
    /\ ~rejectionPending
    /\ \E msg \in LaterResponses :
         LET ft == Append(finalText, OrElse(msg.content, ""))
         IN /\ finalText' = ft
            /\ Iterate(NextRequest(idx), toolCalls, messages, ft)
    /\ UNCHANGED <<choice, messages, toolCalls, results, toolResults, logged, mainError>>
    /\ UNCHANGED LoopVars
    /\ UNCHANGED SessionVars

\* index.ts lines 153-156: the final request resolves.
Llm2Returns ==
    /\ pc = "llm2"
    /\ ~rejectionPending
    /\ \E msg \in LaterResponses :
         LET all == Append(results, OrElse(msg.content, ""))
         IN /\ results' = all
            /\ outcome' = Returned(join(all, "\n\n"))
    /\ pc' = "settled"
    /\ UNCHANGED <<choice, messages, toolCalls, idx, finalText, toolResults, llmCalls,
                   toolLog, logged, mainError>>
    /\ UNCHANGED LoopVars
    /\ UNCHANGED SessionVars

\* ------------------------------------------------------------------ chatLoop, main, cleanup
\* chatLoop resumes after await this.processQuery(message).  A value is
\* printed and the next line is asked for (index.ts 175-177, 171); on an
\* interface that the end of input has closed that question rejects.  An
\* error, of processQuery or of the question, leaves the while loop:
\* index.ts logs it in the catch around the loop (178-179), part_000 has no
\* catch (171-173); both close the terminal and chatLoop ends, normally in
\* index.ts and with the error in part_000.
ChatLoopResume ==
    /\ pc = "settled"
    /\ IF outcome[1].type = "return"
       THEN /\ message' = <<>>
            /\ UNCHANGED rl
            /\ IF rl = "open"
               THEN /\ logged' = logged \cup {"response"}
                    /\ pc' = "reading"
                    /\ UNCHANGED mainError
               ELSE /\ pc' = "finally"
                    /\ IF variant = "index"
                       THEN /\ logged' = logged \cup {"response", "queryError"}
                            /\ UNCHANGED mainError
                       ELSE /\ logged' = logged \cup {"response"}
                            /\ mainError' = "ReadlineError"
       ELSE /\ rl' = "closed"
            /\ pc' = "finally"
            /\ UNCHANGED message
            /\ IF variant = "index"
               THEN logged' = logged \cup {"queryError"} /\ UNCHANGED mainError
               ELSE mainError' = outcome[1].error /\ UNCHANGED logged
    /\ previous' = <<messages[1]>>
    /\ choice' = <<>>
    /\ messages' = <<>>
    /\ toolResults' = <<>>
    /\ toolCalls' = <<>>
    /\ idx' = 0
    /\ results' = <<>>
    /\ finalText' = <<>>
    /\ llmCalls' = <<>>
    /\ toolLog' = <<>>
    /\ outcome' = <<>>
    /\ UNCHANGED <<nLines, nQueries>>
    /\ UNCHANGED SessionVars

\* main's finally block calls cleanup, which awaits this.mcp.close()
\* (lines 205-206, 185-187).
MainFinally ==
    /\ pc = "finally"
    /\ cleanupCalls' = cleanupCalls + 1
    /\ pc' = "closing"
    /\ UNCHANGED <<variant, argv, constructed, transport, connState, unhandled, tools, toolsResult, env,
                   rejectionPending,
                   connectCalls, discoveries, logged, mainError, exitCode>>
    /\ UNCHANGED LoopVars
    /\ UNCHANGED QueryVars

\* close resolves: process.exit(0) (line 207).
CleanupReturns ==
    /\ pc = "closing"
    /\ ~rejectionPending
    /\ pc' = "exited"
    /\ exitCode' = 0
    /\ UNCHANGED <<variant, argv, constructed, transport, connState, unhandled, tools, toolsResult, env,
                   rejectionPending,
                   connectCalls, discoveries, logged, mainError, cleanupCalls>>
    /\ UNCHANGED LoopVars
    /\ UNCHANGED QueryVars

\* close rejects: line 207 is not reached and the promise of main() rejects
\* with nobody to handle it; the process ends with the runtime's code for it.
CleanupThrows ==
    /\ pc = "closing"
    /\ ~rejectionPending
    /\ pc' = "exited"
    /\ mainError' = "CloseError"
    /\ unhandled' = unhandled + 1
    /\ \E code \in {0, 1} : exitCode' = code
    /\ UNCHANGED <<variant, argv, constructed, transport, connState, tools, toolsResult, env,
                   rejectionPending,
                   connectCalls, discoveries, logged, cleanupCalls>>
    /\ UNCHANGED LoopVars
    /\ UNCHANGED QueryVars

Next ==
    \/ LoadModule
    \/ Main
    \/ ConnectCompletes
    \/ ConnectFails
    \/ UnhandledRejection
    \/ ListToolsReturns
    \/ ListToolsThrows
    \/ ReadLine
    \/ StdinEnds
    \/ EventLoopEmpty
    \/ Llm1Returns
    \/ LlmThrows
    \/ CallToolReturns
    \/ CallToolThrows
    \/ FollowUpReturns
    \/ Llm2Returns
    \/ ChatLoopResume
    \/ MainFinally
    \/ CleanupReturns
    \/ CleanupThrows

Spec == Init /\ [][Next]_vars

\* An awaited request to the reasoning service or to the Tool Host is
\* answered: it returns or it throws.
Responds ==
    \/ Llm1Returns
    \/ LlmThrows
    \/ CallToolReturns
    \/ CallToolThrows
    \/ FollowUpReturns
    \/ Llm2Returns

\* The session with its two obligations of progress: a request that
\* processQuery awaits is answered as long as the process is there to take
\* the answer, and the runtime does act on an unhandled rejection once the
\* code has run to its next wait.
FairSpec == Spec /\ WF_vars(Responds) /\ WF_vars(UnhandledRejection)

\* ------------------------------------------------------------------ claims
K == Len(toolCalls)

\* The arguments of every request of the list are well-formed JSON.
WellFormed(tcs) ==
    \A i \in 1..Len(tcs) : tcs[i].function.arguments \in {ArgsParis, ArgsMatch}

\* The query ended because a request to the reasoning service or to the Tool
\* Host threw.
ExternalThrow == outcome \in {Thrown("LLMError"), Thrown("ToolError")}

ToolMessageCount(msgs) == Cardinality({p \in 1..Len(msgs) : msgs[p].role = "tool"})

\* Request i was invoked, as the i-th invocation, and its result is the
\* message after the message that records the request.
Answered(i) ==
    /\ Len(toolLog) >= i
    /\ toolLog[i].request = i
    /\ toolLog[i].name = toolCalls[i].function.name
    /\ Len(messages) >= 2 * i + 1
    /\ messages[2 * i].role = "assistant"
    /\ messages[2 * i].tool_calls = <<toolCalls[i]>>
    /\ messages[2 * i + 1].role = "tool"
    /\ messages[2 * i + 1].tool_call_id = toolCalls[i].id

\* K invocations, one correlated result message for each and no other, all of
\* them in the conversation of the second request, and two requests in all.
BatchDone ==
    /\ Len(toolLog) = K
    /\ \A i \in 1..K : Answered(i)
    /\ ToolMessageCount(messages) = K
    /\ Len(llmCalls) = 2
    /\ llmCalls[2].messages = messages
    /\ Len(messages) = 2 * K + 1

\* C1 as stated: in src/index.ts, a query whose first response carries K >= 1
\* requests and in which no external call throws ends with exactly K Tool
\* Host invocations, one correlated tool-result message per request appended
\* before the second reasoning-service request, and two requests in all.
C1_ExactlyKInvocations ==
    (variant = "index" /\ pc = "settled" /\ K >= 1 /\ ~ExternalThrow) => BatchDone

\* C1 amended: the same, for a first response whose requests all carry
\* well-formed JSON arguments; it holds from the moment the second request
\* is issued.
C1_ExactlyKInvocationsWellFormed ==
    (/\ variant = "index"
     /\ pc \in {"llm2", "settled"}
     /\ K >= 1
     /\ WellFormed(toolCalls)
     /\ ~ExternalThrow) => BatchDone

C1_Witness ==
    /\ variant = "index"
    /\ pc = "settled"
    /\ K = 2
    /\ outcome[1].type = "return"
    /\ Len(toolLog) = 2

\* The first response carries no invocation request: tool_calls is absent
\* or an empty list.
ZeroRequests(msg) ==
    "tool_calls" \notin DOMAIN msg \/ Len(msg.tool_calls) = 0

\* C2: once the first response has come back with zero invocation requests,
\* the query has made exactly one reasoning-service request and no Tool Host
\* invocation, and it returns the text of that response.
C2_ZeroRequestsOneCall ==
    (choice # <<>> /\ ZeroRequests(choice[1])) =>
        /\ Len(llmCalls) = 1
        /\ toolLog = <<>>
        /\ pc = "settled"
        /\ outcome[1].type = "return"
        /\ choice[1].content \notin {NULL, ""} => outcome[1].value = choice[1].content

\* C3: in src/index.ts, when processQuery fails for a query the error is
\* logged and the read loop goes on: chatLoop asks for the next line with the
\* terminal still open.
C3_LoopContinuesAfterFailure ==
    [][(variant = "index" /\ pc = "settled" /\ ExternalThrow)
         => (pc' = "reading" /\ rl' = "open" /\ "queryError" \in logged')]_vars

\* The number of invocation requests with this id in msgs[1..p], and the
\* number of tool-result messages with it.
RequestCount(msgs, p, id) ==
    Cardinality({qj \in (1..p) \X (1..(Len(msgs) + 1)) :
                    /\ msgs[qj[1]].role = "assistant"
                    /\ qj[2] <= Len(msgs[qj[1]].tool_calls)
                    /\ msgs[qj[1]].tool_calls[qj[2]].id = id})

ResultCount(msgs, p, id) ==
    Cardinality({q \in 1..p : msgs[q].role = "tool" /\ msgs[q].tool_call_id = id})

\* Every tool-result message answers exactly one earlier request that had no
\* result yet, and no request is left without a result.
Correlated(msgs) ==
    /\ \A p \in 1..Len(msgs) :
         msgs[p].role = "tool" =>
            RequestCount(msgs, p - 1, msgs[p].tool_call_id)
              - ResultCount(msgs, p - 1, msgs[p].tool_call_id) = 1
    /\ \A q \in 1..Len(msgs) :
         msgs[q].role = "assistant" =>
            \A j \in 1..Len(msgs[q].tool_calls) :
               RequestCount(msgs, Len(msgs), msgs[q].tool_calls[j].id)
                 = ResultCount(msgs, Len(msgs), msgs[q].tool_calls[j].id)

\* C4: the conversation submitted with every reasoning-service request of
\* processQuery is correlated: each tool-result message carries the id of
\* exactly one earlier, still unanswered invocation request, and no
\* invocation request is without a result.
C4_ConversationCorrelated ==
    \A c \in 1..Len(llmCalls) : Correlated(llmCalls[c].messages)

\* A submitted conversation with two requests of the same id, both answered.
C4_Witness ==
    /\ Len(llmCalls) >= 2
    /\ Len(llmCalls[Len(llmCalls)].messages) = 5
    /\ llmCalls[Len(llmCalls)].messages[3].tool_call_id
         = llmCalls[Len(llmCalls)].messages[5].tool_call_id

\* C5: Tool Host invocations are started in the order of the requests, one
\* at a time: when the invocation of a request is started, the tool-result
\* message of every earlier request is in the conversation, and at most one
\* invocation is in flight.
C5_SequentialInOrder ==
    /\ \A k \in 1..Len(toolLog) :
         /\ toolLog[k].request = k
         /\ toolLog[k].name = toolCalls[k].function.name
         /\ k < Len(toolLog) => Answered(k)
    /\ Len(toolLog) - Len(toolResults) \in {0, 1}
    /\ pc = "callTool" => (Len(toolLog) = idx /\ Len(toolResults) = idx - 1)
    /\ pc \notin {"callTool", "exited"} /\ outcome = <<>> => Len(toolLog) = Len(toolResults)

C5_Witness ==
    /\ pc = "callTool"
    /\ idx = 2
    /\ Len(toolLog) = 2
    /\ Len(messages) = 3

\* What JSON.stringify makes of the content of a failure payload.
PayloadText(result) ==
    IF result.content = <<>>
    THEN "[]"
    ELSE "[{\"type\":\"text\",\"text\":\"A\"},{\"type\":\"text\",\"text\":\"B\"}]"

\* The failure payload of request i is the content of its tool-result message.
Recorded(i) ==
    /\ Len(messages) >= 2 * i + 1
    /\ messages[2 * i + 1].role = "tool"
    /\ messages[2 * i + 1].tool_call_id = toolCalls[i].id
    /\ messages[2 * i + 1].content = PayloadText(toolResults[i])

\* C6 as stated: in src/index.ts, when the invocation of request i returned
\* a failure payload, the payload is recorded, the invocations of requests
\* i+1..K are made and the second reasoning-service request is made.
C6_FailurePayloadDoesNotAbort ==
    (variant = "index" /\ pc = "settled") =>
        \A i \in 1..Len(toolResults) :
            toolResults[i].isError =>
                (Recorded(i) /\ Len(toolLog) = K /\ Len(llmCalls) = 2)

\* C6 amended: the payload is recorded and the loop goes on to request i+1
\* (or to the second request after the last one); all of requests i+1..K are
\* invoked and the second request is made unless parsing a later request's
\* arguments or a later invocation throws.
C6_FailurePayloadRecordedLoopGoesOn ==
    variant = "index" =>
        \A i \in 1..Len(toolResults) :
            toolResults[i].isError =>
                /\ Recorded(i)
                /\ i < K => (Len(toolLog) >= i + 1 \/ outcome = Thrown("SyntaxError"))
                /\ i = K => Len(llmCalls) = 2
                /\ (/\ pc \in {"llm2", "settled"}
                    /\ outcome \notin {Thrown("SyntaxError"), Thrown("ToolError")})
                     => (Len(toolLog) = K /\ Len(llmCalls) = 2)

C6_Witness ==
    /\ variant = "index"
    /\ pc = "settled"
    /\ outcome[1].type = "return"
    /\ K = 2
    /\ Len(toolResults) = 2
    /\ toolResults[1].isError
    /\ toolResults[1].content = <<>>
    /\ ~toolResults[2].isError

\* C7: once main has constructed the client, cleanup has been called exactly
\* once when the process has exited, and never more than once.
C7_ReleasedExactlyOnce ==
    /\ cleanupCalls <= 1
    /\ (constructed /\ pc = "exited") => cleanupCalls = 1

\* C8: in src/unnamed/part_000, processQuery makes at most two
\* reasoning-service requests for a query.
C8_AtMostTwoRequests ==
    variant = "part000" => Len(llmCalls) <= 2

\* "quit" in any letter case.
QuitAnyCase(line) ==
    /\ Len(line) = 4
    /\ line[1] \in {"q", "Q"}
    /\ line[2] \in {"u", "U"}
    /\ line[3] \in {"i", "I"}
    /\ line[4] \in {"t", "T"}

LastIsQuit == message # <<>> /\ QuitAnyCase(message[1])

\* C9: a line that is "quit" in any letter case ends the read loop without a
\* processQuery call for it, every other line read is dispatched as exactly
\* one query, and after the loop has ended cleanup is called and the process
\* exits.
C9_QuitEndsLoop ==
    /\ nQueries = nLines - (IF LastIsQuit THEN 1 ELSE 0)
    /\ LastIsQuit =>
         /\ pc \in {"finally", "closing", "exited"}
         /\ rl = "closed"
         /\ llmCalls = <<>>
         /\ pc = "finally" => (cleanupCalls = 0 /\ ENABLED MainFinally)
         /\ pc = "closing" =>
              (cleanupCalls = 1 /\ (ENABLED CleanupReturns \/ ENABLED UnhandledRejection))
         /\ pc = "exited" => (cleanupCalls = 1 /\ exitCode \in {0, 1})
    /\ (message # <<>> /\ ~QuitAnyCase(message[1]) /\ rl = "open") =>
         /\ Len(llmCalls) >= 1
         /\ llmCalls[1].messages = <<[role |-> "user", content |-> message[1]]>>

C9_Witness ==
    /\ message = << <<"Q", "u", "i", "T">> >>
    /\ pc = "exited"
    /\ nLines = 2
    /\ nQueries = 1
    /\ cleanupCalls = 1

\* The path ends in neither ".js" nor ".py".
OtherKind(path) ==
    ~ /\ Len(path) >= 3
      /\ path[Len(path) - 2] = "."
      /\ \/ path[Len(path) - 1] = "j" /\ path[Len(path)] = "s"
         \/ path[Len(path) - 1] = "p" /\ path[Len(path)] = "y"

\* C10: with a script path that ends in neither .js nor .py, connectToServer
\* fails before a transport exists and before discovery is issued; main
\* makes no second connection attempt and never enters the read loop.
C10_WrongKindIsFatal ==
    (EnvNames \subseteq env /\ Len(argv) >= 3 /\ OtherKind(argv[3])) =>
        /\ transport = <<>>
        /\ connState = "none"
        /\ discoveries = 0
        /\ connectCalls <= 1
        /\ rl = "none"
        /\ nLines = 0
        /\ nQueries = 0
        /\ pc \in {"load", "main", "finally", "closing", "exited"}
        /\ pc \notin {"load", "main"} =>
             (connectCalls = 1 /\ mainError # NoError /\ "connectError" \in logged)

C10_Witness ==
    /\ Len(argv) >= 3
    /\ argv[3] = <<"s", ".", "J", "S">>
    /\ pc = "exited"
    /\ connectCalls = 1

\* ------------------------------------------------------------------ C11
\* connectToServer has returned normally: line 69 has logged the tool names.
Connected == "connected" \in logged

\* One cached entry agrees with one declaration of the host in name,
\* description and input schema; a declaration without a description is
\* cached without one.
SameDeclaration(entry, decl) ==
    /\ entry.name = decl.name
    /\ ("description" \in DOMAIN entry) = ("description" \in DOMAIN decl)
    /\ "description" \in DOMAIN decl => entry.description = decl.description
    /\ entry.inputSchema = decl.inputSchema

\* C11: once connectToServer has succeeded against a host that declared N
\* tools, the cached catalog has N entries, in the host's order, each equal
\* to the host's declaration in name, description and input schema; the
\* session has issued exactly one discovery; and this stays so in every
\* later state, whatever queries run.  Before that the catalog is empty.
C11_CatalogIsTheHostsDeclaration ==
    /\ Connected =>
         /\ Len(tools) = Len(toolsResult)
         /\ \A i \in 1..Len(toolsResult) : SameDeclaration(tools[i], toolsResult[i])
         /\ discoveries = 1
    /\ ~Connected => tools = <<>>
    /\ discoveries <= 1

\* The second query of a session is under way against the two-tool host.
C11_Witness ==
    /\ Connected
    /\ toolsResult = HostCatalog
    /\ Len(tools) = 2
    /\ nQueries = 2
    /\ pc = "callTool"

\* ------------------------------------------------------------------ C12
IsPrefix(s, t) == Len(s) <= Len(t) /\ \A p \in 1..Len(s) : s[p] = t[p]

\* A conversation made of this query's messages only: the user message of
\* the line just read, then for requests 1, 2, ... of this query's first
\* response the message recording the request and the message answering it.
FromThisQuery(msgs) ==
    /\ Len(msgs) >= 1
    /\ msgs[1] = [role |-> "user", content |-> message[1]]
    /\ Len(msgs) % 2 = 1
    /\ Len(msgs) <= 1 + 2 * Len(toolResults)
    /\ \A i \in 1..((Len(msgs) - 1) \div 2) :
         /\ msgs[2 * i].role = "assistant"
         /\ msgs[2 * i].tool_calls = <<toolCalls[i]>>
         /\ msgs[2 * i + 1].role = "tool"
         /\ msgs[2 * i + 1].tool_call_id = toolCalls[i].id

\* C12: in every query of a session, the conversation of the first
\* reasoning-service request is the single user message of that query, the
\* conversation of every request consists of that message and of messages
\* made for this query's own invocation requests, and while a query runs
\* the conversation and the list of requests change only by appending.
C12_ConversationIsPerQuery ==
    /\ [](/\ llmCalls # <<>> =>
               llmCalls[1].messages = <<[role |-> "user", content |-> message[1]]>>
          /\ \A c \in 1..Len(llmCalls) : FromThisQuery(llmCalls[c].messages)
          /\ messages # <<>> => FromThisQuery(messages))
    /\ [][/\ (messages # <<>> /\ messages' # <<>>) => IsPrefix(messages, messages')
          /\ (llmCalls # <<>> /\ llmCalls' # <<>>) =>
               /\ IsPrefix(llmCalls, llmCalls')
               /\ IsPrefix(llmCalls[Len(llmCalls)].messages,
                           llmCalls'[Len(llmCalls')].messages)]_vars

\* The second query of a session, after a first one that was answered, has
\* sent a request after a tool invocation.
C12_Witness ==
    /\ nQueries = 2
    /\ "response" \in logged
    /\ Len(llmCalls) = 2
    /\ Len(llmCalls[2].messages) = 3

\* ------------------------------------------------------------------ C13
\* One trace per invocation made, in invocation order, naming the tool and
\* its arguments.
TraceLines == [i \in 1..Len(toolLog) |-> Trace(toolLog[i].name, toolLog[i].arguments)]

\* C13: in src/index.ts, the text processQuery returns for a query whose
\* first response requested tool invocations is the traces of the
\* invocations, in invocation order, followed by the text of the second
\* reasoning-service response (joined by one or two line feeds).
C13_ReturnsTracesThenFinalText ==
    (/\ variant = "index"
     /\ pc = "settled"
     /\ outcome[1].type = "return"
     /\ K >= 1
     /\ Len(llmCalls) = 2) =>
        outcome[1].value \in
            {join(Append(TraceLines, results[Len(results)]), sep) : sep \in {"\n", "\n\n"}}

\* ------------------------------------------------------------------ C14
\* main is started (the module's environment check passes) without the
\* server-path argument.
NoServerPath == EnvNames \subseteq env /\ Len(argv) < 3

\* C14: started without the server-path argument, main prints usage and
\* returns without error: no client is constructed, no Tool Host is
\* spawned, no connection or discovery is attempted, the read loop is not
\* entered and cleanup is not called; the process ends with code 0.
C14_MissingArgumentOnlyPrintsUsage ==
    NoServerPath =>
        /\ ~constructed
        /\ transport = <<>>
        /\ connState = "none"
        /\ connectCalls = 0
        /\ discoveries = 0
        /\ cleanupCalls = 0
        /\ rl = "none"
        /\ nLines = 0
        /\ mainError = NoError
        /\ unhandled = 0
        /\ pc \in {"load", "main", "exited"}
        /\ pc \in {"load", "main"} => (logged = {} /\ exitCode = -1)
        /\ pc = "exited" => (logged = {"usage"} /\ exitCode = 0)

C14_Witness ==
    /\ NoServerPath
    /\ pc = "exited"
    /\ "usage" \in logged

\* ------------------------------------------------------------------ C15
\* decl is the function declaration of the cached entry tool: its name, its
\* description (empty when the entry has none) and an object schema with the
\* entry's properties and required list (empty when the entry has none).
Declares(decl, tool) ==
    /\ DOMAIN decl = {"type", "function"}
    /\ decl.type = "function"
    /\ DOMAIN decl.function = {"name", "description", "parameters"}
    /\ decl.function.name = tool.name
    /\ decl.function.description =
         (IF "description" \in DOMAIN tool /\ tool.description \notin {NULL, ""}
          THEN tool.description ELSE "")
    /\ DOMAIN decl.function.parameters = {"type", "properties", "required"}
    /\ decl.function.parameters.type = "object"
    /\ decl.function.parameters.properties =
         (IF "properties" \in DOMAIN tool.inputSchema
          THEN tool.inputSchema.properties ELSE "{}")
    /\ decl.function.parameters.required =
         (IF "required" \in DOMAIN tool.inputSchema
          THEN tool.inputSchema.required ELSE <<>>)

\* C15: in src/index.ts, the first reasoning-service request of a query
\* carries one function declaration for every entry of the cached catalog,
\* in the catalog's order, and the second request carries no tool
\* declarations.
C15_FirstRequestDeclaresCatalog ==
    (variant = "index" /\ llmCalls # <<>>) =>
        /\ "tools" \in DOMAIN llmCalls[1]
        /\ Len(llmCalls[1].tools) = Len(tools)
        /\ \A i \in 1..Len(tools) : Declares(llmCalls[1].tools[i], tools[i])
        /\ Len(llmCalls) <= 2
        /\ \A c \in 2..Len(llmCalls) : "tools" \notin DOMAIN llmCalls[c]

\* Both requests of a query have been sent, with a catalog whose one entry
\* has neither description nor properties nor required list.
C15_Witness ==
    /\ variant = "index"
    /\ Len(llmCalls) = 2
    /\ Len(tools) = 1
    /\ "description" \notin DOMAIN tools[1]
    /\ "properties" \notin DOMAIN tools[1].inputSchema

\* ------------------------------------------------------------------ C16
\* The loop stands at request idx and the arguments of that request are not
\* well-formed JSON.
ParseFailsAtIdx ==
    /\ idx \in 1..K
    /\ toolCalls[idx].function.arguments \notin {ArgsParis, ArgsMatch}

\* C16: in src/index.ts, when parsing the arguments of request i or the
\* Tool Host invocation of request i throws, processQuery settles by
\* throwing that error and with no value: no invocation has been started for
\* requests i+1..K (i-1 invocations were started when parsing failed, i when
\* the invocation failed), the first reasoning-service request is the only
\* one made, and once the call has settled no request and no invocation is
\* added.
C16_FailsOutright ==
    /\ [](variant = "index" =>
            /\ ParseFailsAtIdx =>
                 /\ pc = "settled"
                 /\ outcome = Thrown("SyntaxError")
                 /\ Len(toolLog) = idx - 1
                 /\ Len(toolResults) = idx - 1
                 /\ Len(llmCalls) = 1
            /\ outcome = Thrown("ToolError") =>
                 /\ pc = "settled"
                 /\ idx \in 1..K
                 /\ Len(toolLog) = idx
                 /\ toolLog[idx].request = idx
                 /\ Len(toolResults) = idx - 1
                 /\ Len(llmCalls) = 1
            /\ outcome = Thrown("SyntaxError") => ParseFailsAtIdx)
    /\ [][(variant = "index" /\ pc = "settled") =>
             (Len(llmCalls') <= Len(llmCalls) /\ Len(toolLog') <= Len(toolLog))]_vars

\* The invocation of the first of two requests has thrown.
C16_Witness ==
    /\ variant = "index"
    /\ pc = "settled"
    /\ outcome = Thrown("ToolError")
    /\ K = 2
    /\ idx = 1
    /\ Len(toolLog) = 1

\* ------------------------------------------------------------------ C17
\* C17: while connectToServer waits for the answer to its discovery request
\* the connection to the Tool Host has completed (discovery is never
\* outstanding on a connection that is still being established or that
\* failed), and a failed connection is reported as a failure of
\* connectToServer: it is logged by its catch and ends main's try block.
C17_DiscoveryAfterConnect ==
    /\ pc = "discovering" => connState = "connected"
    /\ connState = "failed" =>
         /\ "connectError" \in logged
         /\ mainError # NoError
         /\ rl = "none"

\* ------------------------------------------------------------------ C18
\* The process has ended while a request of processQuery was waiting for its
\* answer: that request neither returned nor threw.
Abandoned == pc = "exited" /\ llmCalls # <<>>

\* C18: in src/index.ts, a processQuery call has at no time made more Tool
\* Host invocations than the first response carried requests, nor more than
\* two reasoning-service requests; and provided every request to the
\* reasoning service and every Tool Host invocation returns or throws (none
\* is left unanswered when the process ends, and under FairSpec none waits
\* for ever), a call that has sent its first request eventually settles: it
\* returns or throws.
C18_QueryTerminates ==
    /\ [](variant = "index" =>
            /\ Len(toolLog) <= K
            /\ Len(llmCalls) <= 2
            /\ idx <= K + 1)
    /\ ([]~Abandoned) => ((variant = "index" /\ pc = "llm1") ~> (pc = "settled"))

\* A query with two requests has settled after two invocations and two
\* reasoning-service requests.
C18_Witness ==
    /\ variant = "index"
    /\ pc = "settled"
    /\ K = 2
    /\ Len(toolLog) = 2
    /\ Len(llmCalls) = 2
    /\ outcome[1].type = "return"

====
